---- MODULE Spec2Model ----
(***************************************************************************)
(* Model of the Yahoo Finance "Most Active" scraper                        *)
(* (src/Project 01 - Stock Prices/Yahoo_Finance_Stocks_Scraper.py):        *)
(* the value normalizers, the header resolution done inside                *)
(* _extract_rows_by_header_map, the row extractor, the pagination step     *)
(* _click_next_if_available, the loop of scrape and the tail of main.      *)
(*                                                                         *)
(* Python strings are sequences of one-character strings, so that strip,   *)
(* replace, endswith, split, "in" and float() are computed on characters.  *)
(* Python's None is the record None; an Optional value is None or Some(v). *)
(* A float is a decimal m * 10^e kept normalised (m carries no trailing    *)
(* zero), or NaN; binary rounding of float arithmetic is not modelled.     *)
(***************************************************************************)
EXTENDS Integers, Sequences, FiniteSets, TLC

VARIABLES
    pc,             \* position of main / scrape
    pages_limit,    \* scrape's argument: None or Some(int)
    pages_scraped,  \* scrape's local counter
    data,           \* self.data
    header_map,     \* the header_map of the page being harvested
    page_records,   \* scrape's local: the records of the page just harvested
    row_stale,      \* how each row handle of that page behaved when it was read
    stop_reason,    \* which exit of the loop was taken (its log line)
    nav,            \* driver calls made by the pagination step of this loop iteration
    cur,            \* the page the browser shows
    src,            \* the page source: number of pages, state of Next on the last
    faulted,        \* whether the driver has produced a transient failure in this run
    sink,           \* what save() was handed
    fn,             \* pure-function harness: the function applied
    inp,            \* pure-function harness: its input
    form,           \* pure-function harness: the parts the input was written from
    out,            \* pure-function harness: its result
    yf_cache,       \* self._yf_cache: symbol -> result of its lookup
    lookups,        \* the symbols yfinance was asked for, in order
    enrich_i,       \* enrich_with_yfinance: the record the loop is at
    passes,         \* calls of enrich_with_yfinance that have returned
    visited         \* 99acres: the pages scrape_webpage was run on, in order

vars == <<pc, pages_limit, pages_scraped, data, header_map, page_records, row_stale,
          stop_reason, nav, cur, src, faulted, sink, fn, inp, form, out,
          yf_cache, lookups, enrich_i, passes, visited>>

(***************************************************************************)
(* Bounds                                                                  *)
(***************************************************************************)
MaxPages == 2
MaxRows == 2
MaxLen == 3
MaxDigits == 2
MaxCols == 3
MaxPasses == 2
MaxVisits == 4

(***************************************************************************)
(* Optional values and strings                                             *)
(***************************************************************************)
None == [some |-> FALSE]
Some(v) == [some |-> TRUE, v |-> v]

\* F applied to the value of v: v is evaluated once, as Python evaluates an
\* argument or the right-hand side of an assignment before it is used
Bind(v, F(_)) == CHOOSE r \in { F(x) : x \in {v} } : TRUE

Uppers == <<"A","B","C","D","E","F","G","H","I","J","K","L","M",
            "N","O","P","Q","R","S","T","U","V","W","X","Y","Z">>
Lowers == <<"a","b","c","d","e","f","g","h","i","j","k","l","m",
            "n","o","p","q","r","s","t","u","v","w","x","y","z">>
Digits == <<"0","1","2","3","4","5","6","7","8","9">>
Whitespace == {" "}

LowerChar(c) ==
    IF \E i \in 1..26 : Uppers[i] = c
    THEN Lowers[CHOOSE i \in 1..26 : Uppers[i] = c]
    ELSE c

\* str.lower()
Lower(s) == [i \in 1..Len(s) |-> LowerChar(s[i])]

RECURSIVE LStrip(_)
LStrip(s) == IF s # <<>> /\ Head(s) \in Whitespace THEN LStrip(Tail(s)) ELSE s

RECURSIVE RStrip(_)
RStrip(s) ==
    IF s # <<>> /\ s[Len(s)] \in Whitespace THEN RStrip(SubSeq(s, 1, Len(s) - 1)) ELSE s

\* str.strip()
Strip(s) == RStrip(LStrip(s))

\* str.replace(c, "") for a one-character c
RECURSIVE Remove(_, _)
Remove(s, c) ==
    IF s = <<>> THEN <<>>
    ELSE IF Head(s) = c THEN Remove(Tail(s), c)
    ELSE <<Head(s)>> \o Remove(Tail(s), c)

\* s.endswith(c) for a one-character c
EndsWith(s, c) == s # <<>> /\ s[Len(s)] = c

\* s[:-1]
DropLast(s) == SubSeq(s, 1, Len(s) - 1)

\* the Python test  kw in s  on strings
Contains(kw, s) ==
    \E i \in 0..(Len(s) - Len(kw)) : SubSeq(s, i + 1, i + Len(kw)) = kw

\* str.split(): the maximal runs of non-whitespace characters, in order
RECURSIVE SplitAcc(_, _, _)
SplitAcc(s, tok, acc) ==
    IF s = <<>> THEN (IF tok = <<>> THEN acc ELSE Append(acc, tok))
    ELSE IF Head(s) \in Whitespace
         THEN SplitAcc(Tail(s), <<>>, IF tok = <<>> THEN acc ELSE Append(acc, tok))
         ELSE SplitAcc(Tail(s), Append(tok, Head(s)), acc)

Split(s) == SplitAcc(s, <<>>, <<>>)

\* the truth value Python gives an Optional[str]: None and "" are false
TruthyStr(o) == o.some /\ o.v # <<>>

\* _clean_text
CleanText(o) == IF o = None THEN None ELSE Some(Strip(o.v))

(***************************************************************************)
(* float()                                                                 *)
(***************************************************************************)
NaN == [nan |-> TRUE]
Inf(sign) == [inf |-> sign]

IsDigit(c) == \E i \in 1..10 : Digits[i] = c
DigitVal(c) == (CHOOSE i \in 1..10 : Digits[i] = c) - 1
AllDigits(s) == \A i \in 1..Len(s) : IsDigit(s[i])

RECURSIVE IntOf(_)
IntOf(s) == IF s = <<>> THEN 0 ELSE 10 * IntOf(DropLast(s)) + DigitVal(s[Len(s)])

RECURSIVE Norm(_)
Norm(x) ==
    IF x.m = 0 THEN [m |-> 0, e |-> 0]
    ELSE IF x.m % 10 = 0 THEN Norm([m |-> x.m \div 10, e |-> x.e + 1])
    ELSE x

\* a float times 10^k
Scale(x, k) == IF "m" \in DOMAIN x THEN Norm([m |-> x.m, e |-> x.e + k]) ELSE x

DotAt(s) == CHOOSE i \in 1..Len(s) : s[i] = "."

\* The unsigned body of a float literal: digits, digits "." , "." digits,
\* digits "." digits. None where float() raises ValueError.
Unsigned(s) ==
    IF s = <<>> THEN None
    ELSE IF AllDigits(s) THEN Some(Norm([m |-> IntOf(s), e |-> 0]))
    ELSE IF \E i \in 1..Len(s) : s[i] = "."
         THEN LET ip == SubSeq(s, 1, DotAt(s) - 1)
                  fp == SubSeq(s, DotAt(s) + 1, Len(s))
              IN  IF AllDigits(ip) /\ AllDigits(fp) /\ ip \o fp # <<>>
                  THEN Some(Norm([m |-> IntOf(ip \o fp), e |-> 0 - Len(fp)]))
                  ELSE None
         ELSE None

Words_nan == <<"n","a","n">>
Words_inf == <<"i","n","f">>
Words_infinity == <<"i","n","f","i","n","i","t","y">>

\* float(s) for a str: surrounding whitespace is ignored, one sign is allowed,
\* then inf / infinity / nan in any case, or a decimal literal. None stands
\* for ValueError. (Exponents and digit-group underscores need the characters
\* e and _, which no input of this model contains.)
SignedFloat(neg, body) ==
    IF Lower(body) = Words_nan THEN Some(NaN)
    ELSE IF Lower(body) \in {Words_inf, Words_infinity}
         THEN Some(Inf(IF neg THEN 0 - 1 ELSE 1))
    ELSE Bind(Unsigned(body), LAMBDA u :
             IF u = None THEN None
             ELSE IF neg THEN Some([m |-> 0 - u.v.m, e |-> u.v.e])
             ELSE u)

PyFloat(s) ==
    Bind(Strip(s), LAMBDA t :
        IF t # <<>> /\ Head(t) \in {"+", "-"}
        THEN SignedFloat(Head(t) = "-", Tail(t))
        ELSE SignedFloat(FALSE, t))

(***************************************************************************)
(* The value normalizers                                                   *)
(***************************************************************************)
\* the one character U+2014 (em-dash), which a TLA+ string cannot hold
EmDash == "u2014"

Sentinels == {<<"-">>, <<EmDash>>, <<"N","/","A">>, <<>>}

\* the exponent of the multiplier a trailing K, M, B or T selects
SuffixExp_Wrong(c) ==
    CASE c = "K" -> 3 [] c = "M" -> 6 [] c = "B" -> 6 [] c = "T" -> 12 [] OTHER -> 0
SuffixExp(c) ==
    CASE c = "K" -> 3 [] c = "M" -> 6 [] c = "B" -> 9 [] c = "T" -> 12 [] OTHER -> 0

HasSuffix(s) == s # <<>> /\ s[Len(s)] \in {"K", "M", "B", "T"}

\* parse_number_with_suffix
\* float(a), and float(b) where float(a) raises ValueError
FloatOrElse(a, b) == Bind(PyFloat(a), LAMBDA f : IF f # None THEN f ELSE PyFloat(b))

\* Some(x * 10^k) for f = Some(x), None for None
ScaleOpt(f, k) == IF f # None THEN Some(Scale(f.v, k)) ELSE None

\* the body of parse_number_with_suffix once s is stripped and freed of commas
SuffixedNumber(s) ==
    IF s \in Sentinels THEN None
    ELSE IF EndsWith(s, "%")
         THEN \* float(s[:-1]); on ValueError: float(s), s unchanged
              FloatOrElse(DropLast(s), s)
         ELSE \* mult and s[:-1] by suffix, s.replace("+", ""), float(s) * mult;
              \* on ValueError: float(s), s as rebound, which raises again
              Bind(Remove(IF HasSuffix(s) THEN DropLast(s) ELSE s, "+"), LAMBDA s2 :
                  ScaleOpt(FloatOrElse(s2, s2),
                           IF HasSuffix(s) THEN SuffixExp(s[Len(s)]) ELSE 0))

\* parse_number_with_suffix
parse_number_with_suffix(o) ==
    IF ~TruthyStr(o) THEN None
    ELSE Bind(Remove(Strip(o.v), ","), LAMBDA s : SuffixedNumber(s))

\* parse_price
parse_price(o) ==
    IF ~TruthyStr(o) THEN None
    ELSE Bind(Strip(Remove(o.v, ",")), LAMBDA s :
             Bind(PyFloat(s), LAMBDA f :
                 IF f # None THEN f ELSE parse_number_with_suffix(Some(s))))

\* the body of parse_change's loop for one token
ChangeToken(token) ==
    LET t1 == Remove(Strip(token), ",")
        t2 == IF EndsWith(t1, "%") THEN DropLast(t1) ELSE t1
    IN  PyFloat(Remove(t2, "+"))

RECURSIVE FirstParsed(_)
FirstParsed(parts) ==
    IF parts = <<>> THEN None
    ELSE Bind(ChangeToken(Head(parts)), LAMBDA f :
             IF f # None THEN f ELSE FirstParsed(Tail(parts)))

\* parse_change
parse_change(o) ==
    IF ~TruthyStr(o) THEN None ELSE Bind(Split(o.v), LAMBDA parts : FirstParsed(parts))

\* the inline PE-ratio parse of _extract_rows_by_header_map
parse_pe(o) ==
    IF TruthyStr(o) /\ o.v \notin {<<"-">>, <<EmDash>>, <<"N","/","A">>}
    THEN PyFloat(Remove(o.v, ","))
    ELSE None

(***************************************************************************)
(* Header resolution                                                       *)
(***************************************************************************)
\* header_map[key] = idx on a dict that keeps insertion order: a key already
\* present keeps its place and takes the new index
PutHeader(m, key, idx) ==
    Bind(m, LAMBDA hm :
        IF \E j \in 1..Len(hm) : hm[j].k = key
        THEN [j \in 1..Len(hm) |->
                 IF hm[j].k = key THEN [k |-> key, idx |-> idx] ELSE hm[j]]
        ELSE Append(hm, [k |-> key, idx |-> idx]))

RECURSIVE BuildFrom(_, _, _)
BuildFrom(headers, i, hm) ==
    IF i > Len(headers) THEN hm
    ELSE BuildFrom(headers, i + 1, PutHeader(hm, Lower(Strip(headers[i])), i - 1))

\* the header_map _find_table_and_headers returns for the texts of the th cells
BuildHeaderMap(headers) == BuildFrom(headers, 1, <<>>)

MatchesAny(keywords, k) == \E i \in 1..Len(keywords) : Contains(keywords[i], k)

\* find_index_by_keyword: the index of the first item of header_map whose key
\* contains a keyword
find_index_by_keyword(keywords, hm) ==
    IF \E j \in 1..Len(hm) : MatchesAny(keywords, hm[j].k)
    THEN Some(hm[CHOOSE j \in 1..Len(hm) :
                    /\ MatchesAny(keywords, hm[j].k)
                    /\ \A i \in 1..(j - 1) : ~MatchesAny(keywords, hm[i].k)].idx)
    ELSE None

\* Python's  x or d  for an Optional[int] x: None and 0 are false
PyOr(x, d) == IF x.some /\ x.v # 0 THEN x ELSE d

Kw_symbol == << <<"s","y","m","b","o","l">> >>
Kw_name == << <<"n","a","m","e">>, <<"t","i","t","l","e">> >>
Kw_price == << <<"p","r","i","c","e">>, <<"l","a","s","t">> >>
Kw_change == << <<"c","h","a","n","g","e">>, <<"%"," ","c","h","a","n","g","e">> >>
Kw_volume == << <<"v","o","l","u","m","e">> >>
Kw_marketcap == << <<"m","a","r","k","e","t"," ","c","a","p">>,
                   <<"m","a","r","k","e","t","c","a","p">> >>
Kw_pe == << <<"p","e">>, <<"p","e"," ","r","a","t","i","o">> >>

\* symbol_idx .. pe_idx
ResolveIndexes(hm) ==
    [symbol    |-> PyOr(find_index_by_keyword(Kw_symbol, hm), Some(0)),
     name      |-> PyOr(find_index_by_keyword(Kw_name, hm), Some(1)),
     price     |-> PyOr(find_index_by_keyword(Kw_price, hm), None),
     change    |-> PyOr(find_index_by_keyword(Kw_change, hm), None),
     volume    |-> PyOr(find_index_by_keyword(Kw_volume, hm), None),
     marketcap |-> PyOr(find_index_by_keyword(Kw_marketcap, hm), None),
     pe        |-> PyOr(find_index_by_keyword(Kw_pe, hm), None)]

(***************************************************************************)
(* The row extractor                                                       *)
(***************************************************************************)
\* How a row handle behaves when read: "no" (fresh), "list" (find_elements on
\* the row raises StaleElementReferenceException), "text" (the cells are
\* listed, then reading a cell's text raises it).
RowModes == {"no", "list", "text"}

\* g(idx): the cleaned text of cell idx, None when reading it raises (an
\* index past the last cell, a stale cell)
G(cells, mode, idx) ==
    IF mode = "text" \/ idx + 1 > Len(cells) THEN None ELSE CleanText(Some(cells[idx + 1]))

GOpt(cells, mode, oidx) == IF oidx # None THEN G(cells, mode, oidx.v) ELSE None

\* datetime.utcnow().isoformat() + "Z": the model has no clock, every
\* reading of it is this one token
UtcNow == "utcnow"

\* the raw fields of the record
RawFields(cells, mode, ix) ==
    [symbol         |-> GOpt(cells, mode, ix.symbol),
     name           |-> GOpt(cells, mode, ix.name),
     price_raw      |-> GOpt(cells, mode, ix.price),
     change_raw     |-> GOpt(cells, mode, ix.change),
     volume_raw     |-> GOpt(cells, mode, ix.volume),
     market_cap_raw |-> GOpt(cells, mode, ix.marketcap),
     pe_raw         |-> GOpt(cells, mode, ix.pe),
     scraped_at     |-> UtcNow]

\* the derived fields added to it
WithDerived(raw) ==
    [symbol         |-> raw.symbol,
     name           |-> raw.name,
     price_raw      |-> raw.price_raw,
     change_raw     |-> raw.change_raw,
     volume_raw     |-> raw.volume_raw,
     market_cap_raw |-> raw.market_cap_raw,
     pe_raw         |-> raw.pe_raw,
     scraped_at     |-> raw.scraped_at,
     price_usd      |-> IF TruthyStr(raw.price_raw) THEN parse_price(raw.price_raw) ELSE None,
     change         |-> IF TruthyStr(raw.change_raw) THEN parse_change(raw.change_raw) ELSE None,
     volume         |-> IF TruthyStr(raw.volume_raw)
                        THEN parse_number_with_suffix(raw.volume_raw) ELSE None,
     market_cap     |-> IF TruthyStr(raw.market_cap_raw)
                        THEN parse_number_with_suffix(raw.market_cap_raw) ELSE None,
     pe_ratio       |-> parse_pe(raw.pe_raw)]

\* the record built for one row whose cells could be listed; ix is what the
\* seven find_index_by_keyword calls return for the page's header_map
RowRecord(cells, mode, ix) ==
    Bind(RawFields(cells, mode, ix), LAMBDA raw : WithDerived(raw))

\* The loop of _extract_rows_by_header_map over the rows: a row whose
\* find_elements raises is skipped by the except clause. fresh[i] is the
\* record row i yields when its cells are read without failure.
RECURSIVE ExtractFrom(_, _, _, _, _)
ExtractFrom(rows, modes, ix, fresh, i) ==
    IF i > Len(rows) THEN <<>>
    ELSE (CASE modes[i] = "list" -> <<>>
            [] modes[i] = "no" -> <<fresh[i]>>
            [] OTHER -> <<RowRecord(rows[i], modes[i], ix)>>)
         \o ExtractFrom(rows, modes, ix, fresh, i + 1)

FreshRecords(rows, ix) == [i \in 1..Len(rows) |-> RowRecord(rows[i], "no", ix)]

\* _extract_rows_by_header_map for the rows' cell texts, the behaviour of
\* each row handle and the page's header_map
extract_rows_by_header_map(rows, modes, hm) ==
    Bind(ResolveIndexes(hm), LAMBDA ix :
        ExtractFrom(rows, modes, ix, FreshRecords(rows, ix), 1))

(***************************************************************************)
(* The page source: what the driver finds on each page                     *)
(***************************************************************************)
T_Symbol == <<"S","y","m","b","o","l">>
T_Name == <<"N","a","m","e">>
T_Price == <<"P","r","i","c","e">>
T_PRICE == <<"P","R","I","C","E">>
T_Last == <<"L","a","s","t">>
T_Change == <<"C","h","a","n","g","e">>
T_Volume == <<"V","o","l","u","m","e">>
T_MarketCap == <<"M","a","r","k","e","t"," ","C","a","p">>
T_PE == <<"P","E"," ","R","a","t","i","o">>

\* the texts of the thead th cells, in column order
PageHeaders == <<T_Symbol, T_Name, T_Price, T_Change, T_Volume, T_MarketCap, T_PE>>

\* Equal symbols occur on different pages: the symbol depends on the row only.
SymbolText(r) == IF r = 1 THEN <<"A","A">> ELSE <<"B","B", Digits[r + 1]>>
NameText(p, r) == <<"n", Digits[p + 1], Digits[r + 1]>>

\* the texts of the td cells of row r of page p
RowCells(p, r) ==
    <<SymbolText(r), NameText(p, r),
      <<"1",".","5">>,
      IF r = 1 THEN <<"+","1",".","2","3"," ","(","+","0",".","2","5","%",")">>
               ELSE <<"-","0",".","4","5">>,
      <<"1",".","5","M">>,
      <<"2","B">>,
      IF r = 1 THEN <<"1","2",".","3","4">> ELSE <<"-">> >>

\* A source has n pages: size rows on every page before the last, tail rows
\* on the last. On its last page the Next control is disabled, absent, or
\* ("endless") still enabled, each click showing the last page again. The
\* last page of an endless source is empty.
Sources ==
    { s \in [n : 1..MaxPages, last : {"disabled", "absent", "endless"},
              size : 0..MaxRows, tail : 0..MaxRows] :
        /\ s.tail <= s.size
        /\ s.n = 1 => s.size = MaxRows
        /\ s.last = "endless" => s.tail = 0 }

RowCount(s, p) == IF p < s.n THEN s.size ELSE s.tail
PageRows(s, p) == [r \in 1..RowCount(s, p) |-> RowCells(p, r)]

C_btn == <<"b","t","n">>
C_btn_disabled == <<"b","t","n"," ","d","i","s","a","b","l","e","d">>
W_disabled == <<"d","i","s","a","b","l","e","d">>

\* the attributes of an interactive Next control
EnabledAttrs ==
    {[disabled |-> None, class |-> None, aria |-> None],
     [disabled |-> None, class |-> Some(C_btn), aria |-> Some("false")]}

\* the attributes of a Next control that shows at least one disabled indicator
DisabledAttrs ==
    {[disabled |-> Some("true"), class |-> Some(C_btn), aria |-> None],
     [disabled |-> None, class |-> Some(C_btn_disabled), aria |-> Some("false")],
     [disabled |-> None, class |-> None, aria |-> Some("true")],
     [disabled |-> Some("true"), class |-> Some(C_btn_disabled), aria |-> Some("true")]}

NextPresent(s, p) == p < s.n \/ s.last # "absent"
NextAttrs(s, p) == IF p = s.n /\ s.last = "disabled" THEN DisabledAttrs ELSE EnabledAttrs

\* the page shown after an effective click on Next
PageAfter(s, p) == IF p < s.n THEN p + 1 ELSE p

(***************************************************************************)
(* scrape, _click_next_if_available and the tail of main                   *)
(***************************************************************************)
\* --pages takes any int; scrape is given None, 0, a negative or a positive limit
Limits == {None} \cup { Some(l) : l \in (0 - 1)..MaxPages }

\* Python integers are unbounded. pages_scraped is read only by the test
\* pages_scraped >= pages_limit (and by log lines), so every count above all
\* limits behaves alike: the model stops counting at CountCap.
CountCap == MaxPages + 2
Bump_Missing(n) == n
Bump(n) == IF n < CountCap THEN n + 1 ELSE n

\* pages_limit and pages_scraped >= pages_limit
LimitReached_ZeroCounts(limit, n) == limit.some /\ n >= limit.v
LimitReached_Gt(limit, n) == limit.some /\ limit.v # 0 /\ n > limit.v
LimitReached(limit, n) == limit.some /\ limit.v # 0 /\ n >= limit.v

\* disabled_attr or "disabled" in classes or aria_disabled == "true"
IsDisabled_NoAria(a) ==
    \/ a.disabled # None
    \/ Contains(W_disabled, IF a.class # None THEN a.class.v ELSE <<>>)
IsDisabled(a) ==
    \/ a.disabled # None
    \/ Contains(W_disabled, IF a.class # None THEN a.class.v ELSE <<>>)
    \/ a.aria = Some("true")

\* self.data.extend(page_records)
RECURSIVE DedupInto(_, _)
DedupInto(d, recs) ==
    IF recs = <<>> THEN d
    ELSE DedupInto(IF \E i \in 1..Len(d) : d[i].symbol = Head(recs).symbol
                   THEN d ELSE Append(d, Head(recs)), Tail(recs))
Extend_Dedup(d, recs) == DedupInto(d, recs)
Extend(d, recs) == d \o recs

\* where scrape goes when _find_table_and_headers raises RuntimeError: the
\* except clause logs and breaks, and scrape returns
OnNoTable_Propagate == "raised"
OnNoTable == "returned"

NavIdle ==
    [looked |-> FALSE, found |-> FALSE, attrs |-> None, clicks |-> 0, js |-> 0,
     err |-> None, jsres |-> "", effects |-> 0]

Init ==
    /\ pc = "new"
    /\ pages_limit \in Limits
    /\ pages_scraped = 0
    /\ data = <<>>
    /\ header_map = <<>>
    /\ page_records = <<>>
    /\ row_stale = <<>>
    /\ stop_reason = ""
    /\ nav = NavIdle
    /\ cur = 1
    /\ src \in Sources
    /\ faulted = FALSE
    /\ sink = None
    /\ fn = ""
    /\ inp = None
    /\ form = None
    /\ out = None
    /\ yf_cache = <<>>
    /\ lookups = <<>>
    /\ enrich_i = 0
    /\ passes = 0
    /\ visited = <<>>

\* the variables of the enrichment
enrichment == <<yf_cache, lookups, enrich_i, passes>>

\* what the steps of scrape leave alone
harness == <<fn, inp, form, out, enrichment, visited>>

\* open_page, then pages_scraped = 0
OpenPage ==
    /\ pc = "new"
    /\ pc' = "find"
    /\ pages_scraped' = 0
    /\ UNCHANGED <<pages_limit, data, header_map, page_records, row_stale, stop_reason,
                   nav, cur, src, faulted, sink, harness>>

\* pages_scraped += 1; _find_table_and_headers returns
FindTableOk ==
    /\ pc = "find"
    /\ pages_scraped' = Bump(pages_scraped)
    /\ header_map' = BuildHeaderMap(PageHeaders)
    /\ nav' = NavIdle
    /\ pc' = "extract"
    /\ UNCHANGED <<pages_limit, data, page_records, row_stale, stop_reason, cur, src,
                   faulted, sink, harness>>

\* pages_scraped += 1; the wait for a table times out: RuntimeError, caught by scrape
FindTableTimeout ==
    /\ pc = "find"
    /\ pages_scraped' = Bump(pages_scraped)
    /\ faulted' = TRUE
    /\ stop_reason' = "extraction-error"
    /\ nav' = NavIdle
    /\ pc' = OnNoTable
    /\ UNCHANGED <<pages_limit, data, header_map, page_records, row_stale, cur, src,
                   sink, harness>>

\* pages_scraped += 1; reading a th raises StaleElementReferenceException,
\* which scrape does not catch
FindTableStale ==
    /\ pc = "find"
    /\ pages_scraped' = Bump(pages_scraped)
    /\ faulted' = TRUE
    /\ nav' = NavIdle
    /\ pc' = "raised"
    /\ UNCHANGED <<pages_limit, data, header_map, page_records, row_stale, stop_reason,
                   cur, src, sink, harness>>

\* the behaviours of the rows of one page: at most one row handle goes stale
\* while the page is read
RowBehaviours(n) ==
    { m \in [1..n -> RowModes] : \A i, j \in 1..n : m[i] # "no" /\ m[j] # "no" => i = j }

\* page_records = _extract_rows_by_header_map(...); self.data.extend(page_records)
ExtractRows ==
    /\ pc = "extract"
    /\ \E ix \in {ResolveIndexes(header_map)} :
       \E fresh \in {FreshRecords(PageRows(src, cur), ix)} :
       \E modes \in RowBehaviours(RowCount(src, cur)) :
          /\ row_stale' = modes
          /\ page_records' = ExtractFrom(PageRows(src, cur), modes, ix, fresh, 1)
          /\ faulted' = (faulted \/ \E i \in 1..Len(modes) : modes[i] # "no")
    /\ data' = Extend(data, page_records')
    /\ pc' = "decide"
    /\ UNCHANGED <<pages_limit, pages_scraped, header_map, stop_reason, nav, cur, src, sink,
                   harness>>

\* table.find_elements("tbody tr") raises StaleElementReferenceException
\* outside the row loop's try: it leaves scrape
ExtractRaises ==
    /\ pc = "extract"
    /\ faulted' = TRUE
    /\ pc' = "raised"
    /\ UNCHANGED <<pages_limit, pages_scraped, data, header_map, page_records, row_stale,
                   stop_reason, nav, cur, src, sink, harness>>

\* if pages_limit and pages_scraped >= pages_limit: break
LimitStop ==
    /\ pc = "decide"
    /\ LimitReached(pages_limit, pages_scraped)
    /\ stop_reason' = "reached-limit"
    /\ pc' = "returned"
    /\ UNCHANGED <<pages_limit, pages_scraped, data, header_map, page_records, row_stale,
                   nav, cur, src, faulted, sink, harness>>

\* _click_next_if_available: find_element raises NoSuchElementException
NextNotFound ==
    /\ pc = "decide"
    /\ ~LimitReached(pages_limit, pages_scraped)
    /\ ~NextPresent(src, cur)
    /\ nav' = [nav EXCEPT !.looked = TRUE]
    /\ stop_reason' = "control-not-found"
    /\ pc' = "returned"
    /\ UNCHANGED <<pages_limit, pages_scraped, data, header_map, page_records, row_stale,
                   cur, src, faulted, sink, harness>>

\* _click_next_if_available: the control is found and a disabled indicator is read
NextDisabled ==
    /\ pc = "decide"
    /\ ~LimitReached(pages_limit, pages_scraped)
    /\ NextPresent(src, cur)
    /\ \E a \in NextAttrs(src, cur) :
          /\ IsDisabled(a)
          /\ nav' = [nav EXCEPT !.looked = TRUE, !.found = TRUE, !.attrs = Some(a)]
    /\ stop_reason' = "control-disabled"
    /\ pc' = "returned"
    /\ UNCHANGED <<pages_limit, pages_scraped, data, header_map, page_records, row_stale,
                   cur, src, faulted, sink, harness>>

\* the guard shared by the four outcomes of next_btn.click()
Clicking(a) ==
    /\ pc = "decide"
    /\ ~LimitReached(pages_limit, pages_scraped)
    /\ NextPresent(src, cur)
    /\ a \in NextAttrs(src, cur)
    /\ ~IsDisabled(a)

\* What the driver calls of a pagination step can raise. next_btn.click()
\* raises before it has any effect: ElementClickInterceptedException
\* ("intercepted"), StaleElementReferenceException ("stale") or another
\* WebDriverException ("other"). _wait_for_ready_state catches
\* TimeoutException itself; its execute_script has no element argument and
\* so lets out only another WebDriverException.
ClickErrors == {"intercepted", "stale", "other"}
WaitErrors == {"other"}

\* except (ElementClickInterceptedException, StaleElementReferenceException)
FallbackCaught_Narrow == {"intercepted"}
FallbackCaught_All == {"intercepted", "stale", "other"}
FallbackCaught == {"intercepted", "stale"}

\* the driver calls of a step that found an enabled control with attributes a:
\* err is what the try block of the primary click raised, effects the number
\* of activations that took effect, jsres how the fallback block ended
Nav(a, err, js, jsres, effects) ==
    [looked |-> TRUE, found |-> TRUE, attrs |-> Some(a), clicks |-> 1, js |-> js,
     err |-> err, jsres |-> jsres, effects |-> effects]

\* the page shown after k effective activations
RECURSIVE PageAfterN(_, _, _)
PageAfterN(s, p, k) == IF k = 0 THEN p ELSE PageAfterN(s, PageAfter(s, p), k - 1)

\* next_btn.click() succeeds; the load wait (completed or timed out) and the
\* sleep follow; return True
ClickOk ==
    /\ \E a \in EnabledAttrs \cup DisabledAttrs :
          /\ Clicking(a)
          /\ nav' = Nav(a, None, 0, "", 1)
    /\ cur' = PageAfter(src, cur)
    /\ pc' = "find"
    /\ UNCHANGED <<pages_limit, pages_scraped, data, header_map, page_records, row_stale,
                   stop_reason, src, faulted, sink, harness>>

\* The fallback block, entered after k activations took effect: the script
\* click raises; or it takes effect and the load wait raises, which the
\* except Exception of the block catches too (return False); or the block
\* completes (return True).
Fallback(a, err, k) ==
    \/ /\ nav' = Nav(a, Some(err), 1, "click-raised", k)
       /\ cur' = PageAfterN(src, cur, k)
       /\ stop_reason' = "click-failed"
       /\ pc' = "returned"
    \/ /\ nav' = Nav(a, Some(err), 1, "wait-raised", k + 1)
       /\ cur' = PageAfterN(src, cur, k + 1)
       /\ stop_reason' = "click-failed"
       /\ pc' = "returned"
    \/ /\ nav' = Nav(a, Some(err), 1, "ok", k + 1)
       /\ cur' = PageAfterN(src, cur, k + 1)
       /\ UNCHANGED stop_reason
       /\ pc' = "find"

\* next_btn.click() raises an exception the except clause names: the
\* fallback block runs
ClickFallback ==
    /\ \E a \in EnabledAttrs \cup DisabledAttrs :
          /\ Clicking(a)
          /\ \E err \in ClickErrors \cap FallbackCaught : Fallback(a, err, 0)
    /\ faulted' = TRUE
    /\ UNCHANGED <<pages_limit, pages_scraped, data, header_map, page_records, row_stale,
                   src, sink, harness>>

\* next_btn.click() raises another exception (ElementNotInteractableException,
\* WebDriverException, ...): no except clause matches, it leaves scrape
ClickError ==
    /\ \E a \in EnabledAttrs \cup DisabledAttrs :
          /\ Clicking(a)
          /\ \E err \in ClickErrors \ FallbackCaught :
                nav' = Nav(a, Some(err), 0, "", 0)
    /\ faulted' = TRUE
    /\ pc' = "raised"
    /\ UNCHANGED <<pages_limit, pages_scraped, data, header_map, page_records, row_stale,
                   stop_reason, cur, src, sink, harness>>

\* next_btn.click() takes effect and the load wait raises, inside the same
\* try block: the exception leaves scrape unless the except clause names it
ClickWaitError ==
    /\ \E a \in EnabledAttrs \cup DisabledAttrs :
          /\ Clicking(a)
          /\ \E err \in WaitErrors :
                IF err \in FallbackCaught
                THEN Fallback(a, err, 1)
                ELSE /\ nav' = Nav(a, Some(err), 0, "", 1)
                     /\ cur' = PageAfter(src, cur)
                     /\ pc' = "raised"
                     /\ UNCHANGED stop_reason
    /\ faulted' = TRUE
    /\ UNCHANGED <<pages_limit, pages_scraped, data, header_map, page_records, row_stale,
                   src, sink, harness>>

\* main after scrape returned: save(), which writes nothing for empty data
MainSave ==
    /\ pc = "returned"
    /\ sink' = IF data # <<>> THEN Some(data) ELSE sink
    /\ pc' = "saved"
    /\ UNCHANGED <<pages_limit, pages_scraped, data, header_map, page_records, row_stale,
                   stop_reason, nav, cur, src, faulted, harness>>

\* main's except clause: the exception is logged, save() is not reached
MainExcept ==
    /\ pc = "raised"
    /\ pc' = "failed"
    /\ UNCHANGED <<pages_limit, pages_scraped, data, header_map, page_records, row_stale,
                   stop_reason, nav, cur, src, faulted, sink, harness>>

Next ==
    \/ OpenPage
    \/ FindTableTimeout
    \/ FindTableStale
    \/ FindTableOk
    \/ ExtractRaises
    \/ ExtractRows
    \/ LimitStop
    \/ NextNotFound
    \/ NextDisabled
    \/ ClickOk
    \/ ClickFallback
    \/ ClickError
    \/ ClickWaitError
    \/ MainSave
    \/ MainExcept

Spec == Init /\ [][Next]_vars

\* main runs on one thread and every driver call returns or raises within
\* its timeout: a step that can be taken is taken
FairSpec == Spec /\ WF_vars(Next)

(***************************************************************************)
(* The normalizers and the header resolution applied on their own          *)
(***************************************************************************)
\* the variables of main and scrape, which a call of a pure function leaves alone
machine == <<pc, pages_limit, pages_scraped, data, page_records, row_stale,
             stop_reason, nav, cur, src, faulted, sink>>

\* no run of main is in progress
NoRun(at) ==
    /\ pc = at
    /\ pages_limit = None
    /\ pages_scraped = 0
    /\ data = <<>>
    /\ header_map = <<>>
    /\ page_records = <<>>
    /\ row_stale = <<>>
    /\ stop_reason = ""
    /\ nav = NavIdle
    /\ cur = 1
    /\ src = None
    /\ faulted = FALSE
    /\ sink = None
    /\ fn = ""
    /\ out = None
    /\ yf_cache = <<>>
    /\ lookups = <<>>
    /\ enrich_i = 0
    /\ passes = 0
    /\ visited = <<>>

\* the characters the texts given to the normalizers are written with
NormChars == {"5", "+", "-", ".", ",", "K", "%", " "}

StringsUpTo(n) == UNION { [1..k -> NormChars] : k \in 0..n }

\* texts outside that alphabet: the sentinels, the words float() accepts,
\* and cell texts of the page source
NormExamples ==
    { <<EmDash>>, <<"N","/","A">>, Words_nan, Words_inf,
      <<"1","2",".","3","4">>, <<"-","0",".","4","5">>,
      <<"+","1",".","2","3"," ","(","+","0",".","2","5","%",")">>,
      <<"1",",","2","3","4",".","5","K">> }

\* the argument s of a normalizer: None or a str
RawInputs ==
    {None} \cup { Some(s) : s \in StringsUpTo(MaxLen) } \cup { Some(s) : s \in NormExamples }

FormDigits == {"0", "5"}
DigitRuns == UNION { [1..k -> FormDigits] : k \in 1..MaxDigits }
Suffixes == {"", "K", "M", "B", "T", "%"}

\* the parts of a text [+]digits[,digits][.digits][suffix]; an empty grp or
\* fp means the part is not written
Forms ==
    [plus : BOOLEAN, ip : DigitRuns, grp : {<<>>} \cup DigitRuns,
     fp : {<<>>} \cup DigitRuns, suf : Suffixes]
    \cup { [plus |-> FALSE, ip |-> <<"1">>, grp |-> <<>>, fp |-> <<"5">>, suf |-> "M"],
           [plus |-> FALSE, ip |-> <<"2">>, grp |-> <<>>, fp |-> <<>>, suf |-> "B"] }

\* the text written from those parts
Render(f) ==
    (IF f.plus THEN <<"+">> ELSE <<>>)
    \o f.ip
    \o (IF f.grp # <<>> THEN <<",">> \o f.grp ELSE <<>>)
    \o (IF f.fp # <<>> THEN <<".">> \o f.fp ELSE <<>>)
    \o (IF f.suf # "" THEN <<f.suf>> ELSE <<>>)

InitNorm ==
    /\ NoRun("norm")
    /\ \/ form = None /\ inp \in RawInputs
       \/ form \in Forms /\ inp = Some(Render(form))

Apply(name, result) ==
    /\ pc = "norm"
    /\ fn = ""
    /\ fn' = name
    /\ out' = result
    /\ UNCHANGED <<machine, header_map, inp, form, enrichment, visited>>

CallNumber == Apply("parse_number_with_suffix", parse_number_with_suffix(inp))
CallPrice == Apply("parse_price", parse_price(inp))
CallChange == Apply("parse_change", parse_change(inp))
CallPe == Apply("parse_pe", parse_pe(inp))

NextNorm ==
    \/ CallNumber
    \/ CallPrice
    \/ CallChange
    \/ CallPe

SpecNorm == InitNorm /\ [][NextNorm]_vars

\* the labels a thead can show
HeaderLabels == {T_Symbol, T_Name, T_Price, T_PRICE, T_Last, T_Change, T_Volume, T_MarketCap, T_PE}

\* header lists of distinct labels, in every order
HeaderLists ==
    UNION { { h \in [1..k -> HeaderLabels] : \A i, j \in 1..k : i # j => h[i] # h[j] }
            : k \in 1..MaxCols }

InitHeaders ==
    /\ NoRun("headers")
    /\ form = None
    /\ inp \in HeaderLists

\* _find_table_and_headers on a table with these th texts, then the
\* resolution of symbol_idx .. pe_idx by _extract_rows_by_header_map
ResolveHeaders ==
    /\ pc = "headers"
    /\ fn = ""
    /\ fn' = "find_index_by_keyword"
    /\ header_map' = BuildHeaderMap(inp)
    /\ out' = ResolveIndexes(header_map')
    /\ UNCHANGED <<machine, inp, form, enrichment, visited>>

NextHeaders == ResolveHeaders

SpecHeaders == InitHeaders /\ [][NextHeaders]_vars

(***************************************************************************)
(* The enrichment: _fetch_yf_data and enrich_with_yfinance                 *)
(***************************************************************************)
\* the keys _fetch_yf_data sets from tk.info, and those it sets from the
\* price history
InfoKeys_Colliding == {"market_cap", "yf_beta", "yf_trailingPE"}
InfoKeys == {"yf_market_cap", "yf_beta", "yf_trailingPE"}
IndicatorKeys == {"sma20", "sma50", "sma200", "bb_ma20", "bb_upper", "bb_lower", "rsi14"}

\* How a lookup ends: yf.Ticker or tk.info raises before any key is set;
\* tk.history returns nothing (or raises) after the info keys are set; or
\* every key is set.
FetchOutcomes == {"raised", "nohistory", "full"}

\* The dict a lookup builds. What yfinance answers changes with time: the
\* n-th lookup of a run answers the float n for every key it sets.
FetchResult(outcome, n) ==
    [k \in (CASE outcome = "raised" -> {}
              [] outcome = "nohistory" -> InfoKeys
              [] OTHER -> InfoKeys \cup IndicatorKeys) |-> Some([m |-> n, e |-> 0])]

\* self._yf_cache[symbol] = result, in the finally clause and on the
\* no-history return
CachePut_OnlyOnSuccess(cache, sym, result, outcome) ==
    IF outcome = "raised" THEN cache
    ELSE [k \in DOMAIN cache \cup {sym} |-> IF k = sym THEN result ELSE cache[k]]
CachePut(cache, sym, result, outcome) ==
    [k \in DOMAIN cache \cup {sym} |-> IF k = sym THEN result ELSE cache[k]]

\* _fetch_yf_data(symbol) when the lookup, if one is made, ends with outcome:
\* the dict returned, the cache and the lookups afterwards. The return in
\* the finally clause lets no exception leave the function.
fetch_yf_data(symbol, outcome, cache, asked) ==
    IF ~TruthyStr(symbol)
    THEN [result |-> <<>>, cache |-> cache, asked |-> asked]
    ELSE IF symbol.v \in DOMAIN cache
    THEN [result |-> cache[symbol.v], cache |-> cache, asked |-> asked]
    ELSE Bind(FetchResult(outcome, Len(asked) + 1), LAMBDA r :
             [result |-> r,
              cache  |-> CachePut(cache, symbol.v, r, outcome),
              asked  |-> Append(asked, symbol.v)])

\* rec.update(yf_data)
Update(rec, yf) ==
    [k \in DOMAIN rec \cup DOMAIN yf |-> IF k \in DOMAIN yf THEN yf[k] ELSE rec[k]]

\* the sources whose pages all have the same number of rows
EvenSources == { s \in Sources : s.last = "disabled" /\ s.tail = s.size }

InitEnrich ==
    /\ pc = "harvest"
    /\ pages_limit = None
    /\ pages_scraped = 0
    /\ data = <<>>
    /\ header_map = <<>>
    /\ page_records = <<>>
    /\ row_stale = <<>>
    /\ stop_reason = ""
    /\ nav = NavIdle
    /\ cur = 1
    /\ src \in EvenSources
    /\ faulted = FALSE
    /\ sink = None
    /\ fn = ""
    /\ inp = None
    /\ form = None
    /\ out = None
    /\ yf_cache = <<>>
    /\ lookups = <<>>
    /\ enrich_i = 0
    /\ passes = 0
    /\ visited = <<>>

\* One iteration of scrape's loop on a page whose table is found and whose
\* rows can be listed: the page is harvested and appended; the Next control
\* is then clicked, or found disabled on the last page.
Harvest ==
    /\ pc = "harvest"
    /\ pages_scraped' = Bump(pages_scraped)
    /\ header_map' = BuildHeaderMap(PageHeaders)
    /\ \E modes \in { m \in RowBehaviours(RowCount(src, cur)) :
                        \A i \in 1..Len(m) : m[i] # "list" } :
          /\ row_stale' = modes
          /\ page_records' = extract_rows_by_header_map(PageRows(src, cur), modes, header_map')
    /\ data' = Extend(data, page_records')
    /\ IF cur < src.n
       THEN cur' = PageAfter(src, cur) /\ UNCHANGED <<pc, stop_reason>>
       ELSE pc' = "returned" /\ stop_reason' = "control-disabled" /\ UNCHANGED cur
    /\ UNCHANGED <<pages_limit, nav, src, faulted, sink, harness>>

\* a call of enrich_with_yfinance: it returns at once when there is no data
EnrichCall ==
    /\ pc \in {"returned", "enriched"}
    /\ passes < MaxPasses
    /\ IF data = <<>>
       THEN pc' = "enriched" /\ passes' = passes + 1 /\ UNCHANGED enrich_i
       ELSE pc' = "enrich" /\ enrich_i' = 1 /\ UNCHANGED passes
    /\ UNCHANGED <<pages_limit, pages_scraped, data, header_map, page_records, row_stale,
                   stop_reason, nav, cur, src, faulted, sink, fn, inp, form, out,
                   yf_cache, lookups, visited>>

\* one iteration of the loop of enrich_with_yfinance; after the last record
\* the call returns
EnrichRecord ==
    /\ pc = "enrich"
    /\ \E outcome \in FetchOutcomes :
       \E f \in {fetch_yf_data(data[enrich_i].symbol, outcome, yf_cache, lookups)} :
          /\ yf_cache' = f.cache
          /\ lookups' = f.asked
          /\ data' = [data EXCEPT ![enrich_i] = Update(data[enrich_i], f.result)]
    /\ IF enrich_i < Len(data)
       THEN enrich_i' = enrich_i + 1 /\ UNCHANGED <<pc, passes>>
       ELSE pc' = "enriched" /\ passes' = passes + 1 /\ UNCHANGED enrich_i
    /\ UNCHANGED <<pages_limit, pages_scraped, header_map, page_records, row_stale,
                   stop_reason, nav, cur, src, faulted, sink, fn, inp, form, out, visited>>

\* main after the enrichment: save()
MainSaveEnriched ==
    /\ pc = "enriched"
    /\ sink' = IF data # <<>> THEN Some(data) ELSE sink
    /\ pc' = "saved"
    /\ UNCHANGED <<pages_limit, pages_scraped, data, header_map, page_records, row_stale,
                   stop_reason, nav, cur, src, faulted, harness>>

NextEnrich ==
    \/ Harvest
    \/ EnrichCall
    \/ EnrichRecord
    \/ MainSave
    \/ MainSaveEnriched

SpecEnrich == InitEnrich /\ [][NextEnrich]_vars

(***************************************************************************)
(* The 99acres scraper                                                     *)
(* (src/Project 02 - Real Estate Details/99acres_Properties_Scraper.py):   *)
(* scrape_webpage and the loop of navigate_pages_and_scrape_data.  One     *)
(* action is one turn of the "while True" loop.  pages_scraped holds       *)
(* page_count, data holds self.data, cur is the page the browser shows.    *)
(***************************************************************************)
\* a listing: n result pages of size cards each; the "Next Page >" link is on
\* every page but the last
AcresSources == { [n |-> n, size |-> k] : n \in 1..MaxPages, k \in 1..MaxRows }

\* the text of one element of card r of page p
CardText(p, r, f) == Some([page |-> p, row |-> r, field |-> f])

\* what the lookups inside one card do: every element found ("full"), the
\* heading not found ("noname"), find_elements raising ("noarea"), or
\* find_elements giving other than two elements ("badarea")
CardKinds == {"full", "noname", "noarea", "badarea"}

\* what one run of scrape_webpage meets: the lookup of the cards raising, or
\* one kind per card, at most one card being other than "full"
PageRuns(size) ==
    {[findrows |-> "raised", kinds |-> <<>>]} \cup
    { [findrows |-> "ok", kinds |-> ks] :
        ks \in { k \in [1..size -> CardKinds] :
                   \A i, j \in 1..size : (k[i] # "full" /\ k[j] # "full") => i = j } }

\* _extract_data: the text of the element, np.nan when the lookup raises
extract_data(p, r, f, found) == IF found THEN CardText(p, r, f) ELSE NaN

\* the dict scrape_webpage appends for one card
Property(p, r, kind) ==
    [name     |-> extract_data(p, r, "name", kind # "noname"),
     location |-> extract_data(p, r, "location", TRUE),
     price    |-> extract_data(p, r, "price", TRUE),
     area     |-> IF kind = "noarea" THEN NaN ELSE CardText(p, r, "area"),
     bhk      |-> IF kind = "noarea" THEN NaN ELSE CardText(p, r, "bhk")]

\* the "for row in rows" loop from card i on: a card whose area elements are
\* not two raises out of scrape_webpage, the cards before it stay appended
RECURSIVE ScrapeCards(_, _, _, _)
ScrapeCards(d, p, kinds, i) ==
    IF i > Len(kinds) THEN [data |-> d, raised |-> FALSE]
    ELSE IF kinds[i] = "badarea" THEN [data |-> d, raised |-> TRUE]
    ELSE ScrapeCards(Append(d, Property(p, i, kinds[i])), p, kinds, i + 1)

scrape_webpage(d, p, run) ==
    IF run.findrows = "raised" THEN [data |-> d, raised |-> TRUE]
    ELSE ScrapeCards(d, p, run.kinds, 1)

\* driver.find_element for the "Next Page >" link finds it
NextPageLink(s, p) == p < s.n

InitAcres ==
    /\ pc = "acres_loop"
    /\ pages_limit = None
    /\ pages_scraped = 0
    /\ data = <<>>
    /\ header_map = <<>>
    /\ page_records = <<>>
    /\ row_stale = <<>>
    /\ stop_reason = ""
    /\ nav = NavIdle
    /\ cur = 1
    /\ src \in AcresSources
    /\ faulted = FALSE
    /\ sink = None
    /\ fn = ""
    /\ inp = None
    /\ form = None
    /\ out = None
    /\ yf_cache = <<>>
    /\ lookups = <<>>
    /\ enrich_i = 0
    /\ passes = 0
    /\ visited = <<>>

\* what no turn of the loop touches
AcresRest == <<pages_limit, header_map, page_records, row_stale, nav, src,
               faulted, sink, fn, inp, form, out, enrichment>>

\* the start of a turn: page_count += 1, then scrape_webpage on the page shown
AcresTurn(res) ==
    /\ pages_scraped' = pages_scraped + 1
    /\ visited' = Append(visited, cur)
    /\ data' = res.data

\* scrape_webpage raises: the outer except prints the count and breaks
AcresScrapeRaises ==
    /\ pc = "acres_loop"
    /\ Len(visited) < MaxVisits
    /\ \E run \in PageRuns(src.size) :
         LET res == scrape_webpage(data, cur, run) IN
           /\ res.raised
           /\ AcresTurn(res)
    /\ stop_reason' = "extraction-raised"
    /\ pc' = "acres_done"
    /\ UNCHANGED <<cur, AcresRest>>

\* the page is scraped and has no "Next Page >" link: find_element raises,
\* the outer except prints the count and breaks
AcresNoNextLink ==
    /\ pc = "acres_loop"
    /\ Len(visited) < MaxVisits
    /\ ~NextPageLink(src, cur)
    /\ \E run \in PageRuns(src.size) :
         LET res == scrape_webpage(data, cur, run) IN
           /\ ~res.raised
           /\ AcresTurn(res)
    /\ stop_reason' = "no-next-link"
    /\ pc' = "acres_done"
    /\ UNCHANGED <<cur, AcresRest>>

\* the page is scraped, the link is found, scrolled to and clicked: the
\* browser shows the next page and the loop goes round
AcresClickOk ==
    /\ pc = "acres_loop"
    /\ Len(visited) < MaxVisits
    /\ NextPageLink(src, cur)
    /\ \E run \in PageRuns(src.size) :
         LET res == scrape_webpage(data, cur, run) IN
           /\ ~res.raised
           /\ AcresTurn(res)
    /\ cur' = cur + 1
    /\ UNCHANGED <<pc, stop_reason, AcresRest>>

\* the page is scraped, the link is found, but the scroll, the wait for the
\* link to be clickable or the click raises: the inner except prints
\* "Timeout while clicking" and the loop goes round on the page shown
OnClickFailure == "acres_loop"

AcresClickFails ==
    /\ pc = "acres_loop"
    /\ Len(visited) < MaxVisits
    /\ NextPageLink(src, cur)
    /\ \E run \in PageRuns(src.size) :
         LET res == scrape_webpage(data, cur, run) IN
           /\ ~res.raised
           /\ AcresTurn(res)
    /\ pc' = OnClickFailure
    /\ UNCHANGED <<cur, stop_reason, AcresRest>>

NextAcres ==
    \/ AcresScrapeRaises
    \/ AcresNoNextLink
    \/ AcresClickOk
    \/ AcresClickFails

SpecAcres == InitAcres /\ [][NextAcres]_vars

(***************************************************************************)
(* Properties of the pagination loop                                       *)
(***************************************************************************)
\* the identity of each record of d: its symbol and its name
Keys(d) == [i \in 1..Len(d) |-> <<d[i].symbol, d[i].name>>]

\* the identities of the rows of pages 1..k of source s, page by page, row by row
RECURSIVE RowKeys(_, _)
RowKeys(s, k) ==
    IF k = 0 THEN <<>>
    ELSE RowKeys(s, k - 1)
         \o [r \in 1..RowCount(s, k) |-> <<Some(SymbolText(r)), Some(NameText(k, r))>>]

ScrapeReturned == pc \in {"returned", "saved"}
ScrapeDone == pc \in {"returned", "saved", "raised", "failed"}
LimitSet == pages_limit # None /\ pages_limit.v >= 1
\* a limit is configured: --pages was given and is not 0
LimitConfigured == pages_limit # None /\ pages_limit.v # 0

\* C1: after a page is harvested the stop decision is taken in a fixed order.
\* With a limit configured and reached, the run stops with reached-limit and
\* the Next control is neither looked up nor activated; otherwise an absent
\* control stops it with control-not-found; otherwise a control that shows a
\* disabled indicator stops it with control-disabled and is never clicked.
C1_StopOrder ==
    [][pc = "decide" =>
         IF LimitConfigured /\ pages_scraped >= pages_limit.v
         THEN stop_reason' = "reached-limit" /\ nav' = NavIdle
         ELSE IF ~nav'.found
              THEN stop_reason' = "control-not-found" /\ nav'.clicks = 0 /\ nav'.js = 0
              ELSE nav'.attrs.v \in DisabledAttrs =>
                      /\ stop_reason' = "control-disabled"
                      /\ nav'.clicks = 0
                      /\ nav'.js = 0]_vars

\* a limit is configured and not reached; the control shows aria-disabled
\* only; the run stopped with control-disabled without a click
C1_Witness ==
    /\ stop_reason = "control-disabled"
    /\ LimitSet
    /\ nav.attrs = Some([disabled |-> None, class |-> None, aria |-> Some("true")])
    /\ nav.clicks = 0

\* C2: with no page limit, on a source of N pages whose Next control is
\* enabled and clickable on pages 1..N-1 and disabled on page N, and whose
\* tables and rows are read without failure, scrape ends with every page's
\* rows in page-then-row order, equal symbols on different pages all kept,
\* and the stop reason control-disabled.
C2_AllPagesInOrder ==
    (ScrapeReturned /\ pages_limit = None /\ src.last = "disabled" /\ ~faulted) =>
        /\ Keys(data) = RowKeys(src, src.n)
        /\ stop_reason = "control-disabled"

\* two full pages were harvested: the symbols of page 1 recur on page 2
C2_Witness ==
    /\ ScrapeReturned /\ pages_limit = None /\ src.last = "disabled" /\ ~faulted
    /\ src.n = MaxPages /\ src.tail = MaxRows
    /\ Len(data) = MaxPages * MaxRows
    /\ data[1].symbol = data[MaxRows + 1].symbol

\* C3: with a page limit L >= 1 the number of pages harvested never exceeds
\* L; on a source of at least L pages read without failure the run ends with
\* exactly the records of pages 1..L and the stop reason reached-limit.
C3_LimitBounds ==
    LimitSet =>
        /\ pages_scraped <= pages_limit.v
        /\ (ScrapeReturned /\ ~faulted /\ pages_limit.v <= src.n) =>
              /\ Keys(data) = RowKeys(src, pages_limit.v)
              /\ stop_reason = "reached-limit"

\* limit 1 on a two-page source: the first page only
C3_Witness ==
    /\ pages_limit = Some(1) /\ src.n = 2 /\ src.size = MaxRows
    /\ ScrapeReturned /\ ~faulted
    /\ stop_reason = "reached-limit"
    /\ Len(data) = MaxRows

C5_LaterFailureKeepsPages ==
    (pc \in {"saved", "failed"} /\ faulted /\ pages_scraped >= 2 /\ data # <<>>) =>
        sink = Some(data)

\* C6 as claimed: every run of scrape eventually terminates, whatever the
\* source does.
C6_AlwaysTerminates == <>ScrapeDone

\* C6 as amended: scrape terminates when a page limit of 1 or more is
\* configured or the source's Next control is absent or disabled on its last
\* page.
C6_TerminatesWhenBounded == (LimitSet \/ src.last # "endless") => <>ScrapeDone

\* the Next control never stops being enabled, and the limit ended the run
C6_Witness == src.last = "endless" /\ stop_reason = "reached-limit" /\ pc = "returned"

\* C7: a row whose handle is stale when read contributes no record, and
\* every fresh row of the page yields exactly one record, in row order.
C7_StaleRowsSkipped ==
    pc = "decide" =>
        Keys(page_records) =
            SelectSeq([r \in 1..Len(row_stale) |->
                          IF row_stale[r] = "no"
                          THEN <<Some(SymbolText(r)), Some(NameText(cur, r))>>
                          ELSE <<None, None>>],
                      LAMBDA k : k # <<None, None>>)

(***************************************************************************)
(* Properties of the header resolution and of the normalizers              *)
(***************************************************************************)
\* the columns of a header list whose label contains a keyword of the field price
PriceColumns(h) == { i \in 1..Len(h) : MatchesAny(Kw_price, Lower(Strip(h[i]))) }

\* C8: header resolution is order-independent. For a header list of distinct
\* labels exactly one of which matches the keywords of price, in whatever
\* order, the resolved index of price is the position of that label, the
\* first column (position 0) included.
C8_PriceIndexIsLabelPosition ==
    (fn = "find_index_by_keyword" /\ Cardinality(PriceColumns(inp)) = 1) =>
        out.price = Some((CHOOSE i \in PriceColumns(inp) : TRUE) - 1)

\* a decimal number: digits with at most one point
IsDecimal(s) ==
    /\ \A i \in 1..Len(s) : IsDigit(s[i]) \/ s[i] = "."
    /\ Cardinality({ i \in 1..Len(s) : s[i] = "." }) <= 1
    /\ \E i \in 1..Len(s) : IsDigit(s[i])

SignOff(s) == IF s # <<>> /\ Head(s) \in {"+", "-"} THEN Tail(s) ELSE s

\* The grammar of each field, read generously: blanks around the text, one
\* leading sign and thousands separators are allowed everywhere. A magnitude
\* or a price is a decimal with an optional suffix K, M, B, T or %; a delta
\* has a token that is a signed decimal with an optional %; a ratio is a
\* signed decimal.
WellFormedMagnitude(s) ==
    LET t == SignOff(Strip(s))
        u == IF t # <<>> /\ t[Len(t)] \in {"K", "M", "B", "T", "%"} THEN DropLast(t) ELSE t
    IN  IsDecimal(Remove(u, ","))

WellFormedDeltaToken(t) ==
    LET u == Remove(t, ",")
    IN  IsDecimal(SignOff(IF EndsWith(u, "%") THEN DropLast(u) ELSE u))

WellFormedDelta(s) == \E i \in 1..Len(Split(s)) : WellFormedDeltaToken(Split(s)[i])

WellFormedRatio(s) == IsDecimal(Remove(SignOff(Strip(s)), ","))

WellFormed(name, o) ==
    /\ o # None
    /\ CASE name = "parse_change" -> WellFormedDelta(o.v)
         [] name = "parse_pe" -> WellFormedRatio(o.v)
         [] OTHER -> WellFormedMagnitude(o.v)

NormNames == {"parse_number_with_suffix", "parse_price", "parse_change", "parse_pe"}

\* C9: the normalizers are total and strict. Applied to any str or to None,
\* each returns a number or None; a text that is not a well-formed number of
\* the field's grammar, a sentinel token and None all give None.
C9_NormalizersTotalAndStrict ==
    fn \in NormNames =>
        /\ out = None \/ out.some
        /\ ~WellFormed(fn, inp) => out = None
        /\ (inp # None /\ inp.v \in Sentinels) => out = None

\* the exponent of the multiplier the reference grammar gives each suffix
RefExp(suf) ==
    CASE suf = "K" -> 3 [] suf = "M" -> 6 [] suf = "B" -> 9 [] suf = "T" -> 12 [] OTHER -> 0

\* the number the reference grammar reads from the parts of a text: the
\* digits with the separator dropped, the point before the last Len(fp) of
\* them, times the multiplier of the suffix
RefValue(f) ==
    Norm([m |-> IntOf(f.ip \o f.grp \o f.fp), e |-> RefExp(f.suf) - Len(f.fp)])

\* C10: on every text [+]digits[,digits][.digits][suffix],
\* parse_number_with_suffix returns the number of the reference grammar:
\* separator and leading + removed, K, M, B, T multiplying by 10^3, 10^6,
\* 10^9, 10^12, % and no suffix leaving the number unscaled.
C10_AgreesWithGrammar ==
    (fn = "parse_number_with_suffix" /\ form # None) => out = Some(RefValue(form))

\* +digits,digits.digits with a suffix B has been parsed, and '1.5M' too
C10_Witness ==
    /\ fn = "parse_number_with_suffix"
    /\ form # None
    /\ \/ form.plus /\ form.grp # <<>> /\ form.fp # <<>> /\ form.suf = "B"
             /\ out = Some(RefValue(form))
       \/ inp = Some(<<"1",".","5","M">>) /\ out = Some([m |-> 15, e |-> 5])

\* a signed decimal: one optional sign, then a decimal number
IsSignedDecimal(s) == IsDecimal(SignOff(s))

\* the value of a signed decimal: the leading + dropped, the - kept
SignedDecimalValue(s) ==
    LET u == Unsigned(SignOff(s)).v
    IN  IF Head(s) = "-" THEN [m |-> 0 - u.m, e |-> u.e] ELSE u

\* a token of a delta text with the thousands separators and one trailing % removed
DeltaCore(t) ==
    LET u == Remove(t, ",")
    IN  IF EndsWith(u, "%") THEN DropLast(u) ELSE u

\* the value of the leftmost token that is a signed decimal, None if there is none
RECURSIVE LeftmostSignedDecimal(_)
LeftmostSignedDecimal(tokens) ==
    IF tokens = <<>> THEN None
    ELSE IF IsSignedDecimal(DeltaCore(Head(tokens)))
         THEN Some(SignedDecimalValue(DeltaCore(Head(tokens))))
         ELSE LeftmostSignedDecimal(Tail(tokens))

\* C11: parse_change returns the value of the leftmost whitespace-separated
\* token that, thousands separators and one trailing % removed, is a signed
\* decimal (leading + dropped, - kept); tokens that do not parse are skipped
\* and None is returned when no token parses.
C11_LeftmostSignedDecimal ==
    (fn = "parse_change" /\ inp # None) => out = LeftmostSignedDecimal(Split(inp.v))

(***************************************************************************)
(* Properties of the enrichment                                            *)
(***************************************************************************)
\* C12: a record appended by the row extractor is never changed afterwards.
\* In every step of the pagination loop and of any enrichment pass, each
\* record already in data stays at its place and every field it has
\* (identity, raw, derived, scraped_at, and the fields an earlier pass
\* added) keeps its value: enrichment only adds fields.
C12_RecordsNeverChanged ==
    [][\A i \in 1..Len(data) :
          /\ i <= Len(data')
          /\ \A k \in DOMAIN data[i] :
                k \in DOMAIN data'[i] /\ data'[i][k] = data[i][k]]_vars

\* a second enrichment pass has gone over records of two pages, the first
\* of which had been given every enrichment field by the first pass
C12_Witness ==
    /\ passes = MaxPasses
    /\ pages_scraped >= 2
    /\ Len(data) >= 2
    /\ "rsi14" \in DOMAIN data[1]
    /\ data[1].scraped_at = UtcNow

\* record i has been gone over by the enrichment
Enriched(i) == passes >= 1 \/ (pc = "enrich" /\ i < enrich_i)

\* the enrichment fields of a record
EnrichmentOf(rec) ==
    [k \in DOMAIN rec \cap (InfoKeys \cup IndicatorKeys) |-> rec[k]]

\* C13: in one run the lookup is made at most once for each symbol, and never
\* for an empty or missing one, however the lookup ended; records with the
\* same symbol carry the same enrichment values; and a lookup that failed
\* does not stop the loop: when a pass has returned, every record with a
\* symbol carries what the cache holds for that symbol.
C13_OneLookupPerSymbol ==
    /\ \A i, j \in 1..Len(lookups) : lookups[i] = lookups[j] => i = j
    /\ \A i \in 1..Len(lookups) : lookups[i] # <<>>
    /\ \A i, j \in 1..Len(data) :
          (Enriched(i) /\ Enriched(j) /\ TruthyStr(data[i].symbol)
             /\ data[i].symbol = data[j].symbol)
          => EnrichmentOf(data[i]) = EnrichmentOf(data[j])
    /\ passes >= 1 =>
          \A i \in 1..Len(data) :
             TruthyStr(data[i].symbol) =>
                /\ data[i].symbol.v \in DOMAIN yf_cache
                /\ EnrichmentOf(data[i]) = yf_cache[data[i].symbol.v]

\* a pass has returned over records with a repeated symbol whose lookup
\* raised, followed by a record whose lookup set every field
C13_Witness ==
    /\ pc = "enriched"
    /\ \E i, j, k \in 1..Len(data) :
          /\ i < j /\ j < k
          /\ TruthyStr(data[i].symbol)
          /\ yf_cache[data[i].symbol.v] = <<>>
          /\ "rsi14" \in DOMAIN data[j]
          /\ data[k].symbol = data[i].symbol

(***************************************************************************)
(* Properties of the pagination step                                       *)
(***************************************************************************)
\* C14: when the primary click on an enabled Next control fails because the
\* control is obstructed or stale, the fallback script activation is made
\* exactly once. If the fallback block completes, pagination continues on
\* the next page; if it fails, in whatever way, the run stops, and no
\* driver call of the step is made after the run has stopped.
C14_FallbackExactlyOnce ==
    [][/\ (pc = "decide" /\ nav'.clicks = 1) =>
             /\ nav'.js <= 1
             /\ (nav'.effects = 0 /\ nav'.err \in {Some("intercepted"), Some("stale")})
                   => nav'.js = 1
             /\ (nav'.js = 1 /\ nav'.jsres = "ok")
                   => (pc' = "find" /\ cur' = PageAfter(src, cur))
             /\ (nav'.js = 1 /\ nav'.jsres # "ok")
                   => (pc' = "returned" /\ stop_reason' = "click-failed")
       /\ pc \in {"returned", "saved"} => nav' = nav]_vars

\* the click on the control raised stale, the script click raised too, and
\* the run has stopped
C14_Witness ==
    /\ pc = "returned"
    /\ stop_reason = "click-failed"
    /\ nav.err = Some("stale")
    /\ nav.js = 1
    /\ nav.jsres = "click-raised"

\* the activations of the fallback block that took effect
JsEffects(n) == IF n.js = 1 /\ n.jsres \in {"ok", "wait-raised"} THEN 1 ELSE 0

\* C17: in one pagination step the Next control is activated with effect at
\* most once, and a step that continues shows the page after the current
\* one. The fallback script activation is made only if the primary click
\* took no effect: a load wait that fails after an effective click does not
\* lead to it.
C17_OneEffectPerStep ==
    [][pc = "decide" =>
          /\ nav'.effects <= 1
          /\ nav'.js = 1 => nav'.effects = JsEffects(nav')
          /\ pc' = "find" => (nav'.effects = 1 /\ cur' = PageAfter(src, cur))]_vars

\* the primary click took effect on a page before the last, its load wait
\* raised, and no script activation followed
C17_Witness ==
    /\ pc = "raised"
    /\ nav.clicks = 1
    /\ nav.effects = 1
    /\ nav.err = Some("other")
    /\ nav.js = 0
    /\ cur = pages_scraped + 1

(***************************************************************************)
(* Properties of the header resolution for every field                     *)
(***************************************************************************)
\* the columns of a header list whose label contains one of the keywords
Matching(keywords, h) ==
    { i \in 1..Len(h) : MatchesAny(keywords, Lower(Strip(h[i]))) }

\* the keywords of each numeric field
NumericKeywords ==
    [price |-> Kw_price, change |-> Kw_change, volume |-> Kw_volume,
     marketcap |-> Kw_marketcap, pe |-> Kw_pe]

\* an identity field resolves to a matching column if there is one, and to
\* its fixed position otherwise
ResolvedOrFallback(idx, keywords, h, fallback) ==
    IF Matching(keywords, h) # {}
    THEN idx # None /\ idx.v + 1 \in Matching(keywords, h)
    ELSE idx = Some(fallback)

\* C15: for every header list, symbol and name resolve to the position of a
\* matching header whenever there is one, at any position, and to 0 and 1
\* otherwise; a numeric field is None exactly when no header matches its
\* keywords, and otherwise is the position of a matching header.
C15_ResolutionByKeyword ==
    fn = "find_index_by_keyword" =>
        /\ ResolvedOrFallback(out.symbol, Kw_symbol, inp, 0)
        /\ ResolvedOrFallback(out.name, Kw_name, inp, 1)
        /\ \A f \in DOMAIN NumericKeywords :
              /\ out[f] = None <=> Matching(NumericKeywords[f], inp) = {}
              /\ out[f] # None => out[f].v + 1 \in Matching(NumericKeywords[f], inp)

\* the leftmost of a non-empty set of columns
Leftmost(cols) == CHOOSE i \in cols : \A j \in cols : i <= j

AllKeywords ==
    [symbol |-> Kw_symbol, name |-> Kw_name, price |-> Kw_price, change |-> Kw_change,
     volume |-> Kw_volume, marketcap |-> Kw_marketcap, pe |-> Kw_pe]

\* C16: when several header labels match the keywords of one field, the
\* field resolves to the leftmost matching column, also when two columns
\* carry the same label after lower-casing.
C16_LeftmostMatchWins ==
    fn = "find_index_by_keyword" =>
        \A f \in DOMAIN AllKeywords :
           Cardinality(Matching(AllKeywords[f], inp)) >= 2 =>
              out[f] = Some(Leftmost(Matching(AllKeywords[f], inp)) - 1)

(***************************************************************************)
(* Properties of the page limit                                            *)
(***************************************************************************)
\* what a limit of 0 and no limit have in common: the limit test never
\* succeeds, and a run that returns was ended by the table or by the Next
\* control
ZeroIsNoLimit ==
    /\ \A n \in 0..CountCap : ~LimitReached(Some(0), n) /\ ~LimitReached(None, n)
    /\ pages_limit \in {None, Some(0)} =>
          /\ stop_reason # "reached-limit"
          /\ ScrapeReturned =>
                stop_reason \in {"control-not-found", "control-disabled", "click-failed",
                                 "extraction-error"}

\* C18 as claimed: a limit of 0 is treated like no limit, and only limits
\* of 1 or more end a run with reached-limit.
C18_OnlyPositiveLimitsBound ==
    /\ ZeroIsNoLimit
    /\ stop_reason = "reached-limit" => (pages_limit # None /\ pages_limit.v >= 1)

\* C18 as amended: a limit of 0 is treated like no limit; every other limit
\* ends the run with reached-limit, a limit L of 1 or more after L pages
\* and a negative limit after the first page.
C18_NonZeroLimitsBound ==
    /\ ZeroIsNoLimit
    /\ stop_reason = "reached-limit" =>
          /\ LimitConfigured
          /\ pages_scraped = (IF pages_limit.v >= 1 THEN pages_limit.v ELSE 1)
    /\ LimitConfigured => pages_scraped <= (IF pages_limit.v >= 1 THEN pages_limit.v ELSE 1)

\* with a limit of 0 every page of a source of MaxPages pages was harvested
\* and the disabled control ended the run
C18_Witness ==
    /\ pages_limit = Some(0)
    /\ src.n = MaxPages
    /\ pages_scraped = MaxPages
    /\ stop_reason = "control-disabled"
    /\ Len(data) = MaxPages * MaxRows

(***************************************************************************)
(* Properties of the 99acres loop                                          *)
(***************************************************************************)
\* C19: navigate_pages_and_scrape_data harvests each result page exactly once:
\* scrape_webpage is never run a second time on a page, also after a failed
\* click on "Next Page >", and by the time the loop has ended every page up
\* to the one shown has been harvested.
C19_EachPageHarvestedOnce ==
    /\ \A i, j \in 1..Len(visited) : visited[i] = visited[j] => i = j
    /\ pc = "acres_done" => { visited[i] : i \in 1..Len(visited) } = 1..cur

====
